---- MODULE Spec2Model ----
(***************************************************************************)
(* Streaming generation bridge with cooperative cancellation               *)
(* (mnn/src/main/cpp/mnnllmnative.cpp).                                    *)
(*                                                                         *)
(* Threads: one generation thread, the worker that calls                  *)
(* nativeGenerateStream, and one thread calling nativeCancel.              *)
(* The engine (llm->response) is the environment of the sink: it issues    *)
(* writes (xsputn), returns, or throws.  The consumer (onToken) and the    *)
(* JVM (GetEnv, AttachCurrentThread, NewStringUTF) are environment too.    *)
(***************************************************************************)
EXTENDS Integers, Sequences, FiniteSets, TLC

\* ------------------------------------------------------------------------
\* Bounds of the model
\* ------------------------------------------------------------------------
MaxRequests == 2
MaxWrites == 3
MaxCancels == 2

\* ------------------------------------------------------------------------
\* Program constants
\* ------------------------------------------------------------------------
FlushThreshold == 16
NullPtr == 0

\* Two engine instances (jlong llmPtr values)
Handles == {1, 2}

\* Owners of gCancelMutex: nobody, the generation thread, the cancelling thread
Free == "free"
Gen == "gen"
Ext == "ext"
Oth == "oth"

\* ------------------------------------------------------------------------
\* Bytes the engine writes.  A write is a byte string (s, n = Len(s)).
\* ------------------------------------------------------------------------
Rep(b, n) == [i \in 1..n |-> b]

Vocabulary ==
    { <<97>>,                    \* "a"
      Rep(97, 15),               \* 15 letters: one byte short of the threshold
      <<46>>,                    \* "."
      <<33>>,                    \* "!"
      <<63>>,                    \* "?"
      <<10>>,                    \* "\n"
      <<227, 128, 130>>,         \* E3 80 82
      <<239, 188, 129>>,         \* EF BC 81
      <<239, 188, 159>>,         \* EF BC 9F
      <<239, 188, 130>>,         \* EF BC 82: another three-byte character
      <<227>>,                   \* first byte of a three-byte character
      <<128, 130>>,              \* its last two bytes
      <<0>> }                    \* NUL

\* A vocabulary with one write of each kind: n = 0, accepted without a
\* flush, accepted with a flush
SmallVocabulary == { <<>>, <<97>>, <<46>> }

\* ------------------------------------------------------------------------
\* Pure functions
\* ------------------------------------------------------------------------

\* xsputn, lines 427-432: the newly written bytes contain '\n', '.', '!', '?'
HasAsciiDelimiter(s) ==
    \E i \in 1..Len(s) : s[i] = 10 \/ s[i] = 46 \/ s[i] = 33 \/ s[i] = 63

\* xsputn, lines 434-449: the buffer's last three bytes are a full-width
\* sentence terminator
HasCjkTail(buf) ==
    /\ Len(buf) >= 3
    /\ LET c1 == buf[Len(buf) - 2]
           c2 == buf[Len(buf) - 1]
           c3 == buf[Len(buf)]
       IN  \/ (c1 = 227 /\ c2 = 128 /\ c3 = 130)
           \/ (c1 = 239 /\ c2 = 188 /\ c3 = 129)
           \/ (c1 = 239 /\ c2 = 188 /\ c3 = 159)

\* Mutant: size() > 16 for size() >= 16
ShouldFlush_Over16(buf, s) ==
    IF Len(buf) > FlushThreshold
    THEN TRUE
    ELSE HasAsciiDelimiter(s) \/ HasCjkTail(buf)

\* xsputn, lines 422-450: the flush decision after appending s to the buffer
\* (buf is the buffer after the append)
ShouldFlush(buf, s) ==
    IF Len(buf) >= FlushThreshold
    THEN TRUE
    ELSE HasAsciiDelimiter(s) \/ HasCjkTail(buf)

\* buffer.c_str() read as a C string: the bytes before the first NUL
RECURSIVE CStr(_)
CStr(b) ==
    IF b = <<>> \/ Head(b) = 0 THEN <<>> ELSE <<Head(b)>> \o CStr(Tail(b))

IsCont(b, i) == i <= Len(b) /\ b[i] >= 128 /\ b[i] <= 191

\* The code unit an ill-formed byte turns into (U+FFFD stands for whatever
\* the runtime makes of it: never the character the engine meant).
Replacement == 65533

\* Modified UTF-8 to UTF-16 code units
RECURSIVE Decode(_)
Decode(b) ==
    IF b = <<>> THEN <<>>
    ELSE LET c == Head(b) IN
         IF c < 128 THEN <<c>> \o Decode(Tail(b))
         ELSE IF c >= 192 /\ c <= 223 /\ IsCont(b, 2)
         THEN <<(c - 192) * 64 + (b[2] - 128)>> \o Decode(SubSeq(b, 3, Len(b)))
         ELSE IF c >= 224 /\ c <= 239 /\ IsCont(b, 2) /\ IsCont(b, 3)
         THEN <<(c - 224) * 4096 + (b[2] - 128) * 64 + (b[3] - 128)>>
                  \o Decode(SubSeq(b, 4, Len(b)))
         ELSE <<Replacement>> \o Decode(Tail(b))

\* env->NewStringUTF(mContext->buffer.c_str()), line 371: the Java string the
\* consumer receives
NewStringUTF(buf) == Decode(CStr(buf))

RECURSIVE Flatten(_)
Flatten(ss) == IF ss = <<>> THEN <<>> ELSE Head(ss) \o Flatten(Tail(ss))

\* ------------------------------------------------------------------------
\* The cancellation table (lines 36-56); each body runs under gCancelMutex
\* ------------------------------------------------------------------------
EmptyTable == [k \in {} |-> FALSE]

\* Mutant: gCancelFlags.insert({llmPtr, value}), which keeps an existing entry
setCancelFlag_Insert(table, llmPtr, value) ==
    [k \in (DOMAIN table) \cup {llmPtr} |-> IF k \in DOMAIN table THEN table[k] ELSE value]

\* gCancelFlags[llmPtr] = value
setCancelFlag(table, llmPtr, value) ==
    [k \in (DOMAIN table) \cup {llmPtr} |-> IF k = llmPtr THEN value ELSE table[k]]

\* it != end() && it->second
checkCancelFlag(table, llmPtr) ==
    llmPtr \in DOMAIN table /\ table[llmPtr]

\* Mutant: gCancelFlags.clear() for gCancelFlags.erase(llmPtr)
clearCancelFlag_All(table, llmPtr) == EmptyTable

\* gCancelFlags.erase(llmPtr)
clearCancelFlag(table, llmPtr) ==
    [k \in (DOMAIN table) \ {llmPtr} |-> table[k]]

\* ------------------------------------------------------------------------
\* State
\* ------------------------------------------------------------------------
VARIABLES
    gCancelFlags,        \* std::map<jlong, bool>
    gCancelMutex,        \* owner of the std::mutex
    pc,                  \* position of the generation thread
    llmPtr,              \* StreamContext::llmPtr, the handle of its request
    cbArg,               \* llmPtr of a nativeCancel called by the consumer inside onToken
    cur,                 \* s of the xsputn call in progress
    retpc,               \* where flushToCallback returns to
    retval,              \* value returned by nativeGenerateStream
    buffer,              \* StreamContext::buffer
    shouldStop,          \* StreamContext::shouldStop
    needDetach,          \* flushToCallback's local
    callbackGlobalRef,   \* TRUE while the global reference is held
    cancelPc,            \* position of the thread calling nativeCancel
    cancelArg,           \* its llmPtr
    otherPc,             \* position of a second thread in nativeGenerateStream
    otherPtr,            \* its llmPtr
    otherStop,           \* its StreamContext::shouldStop
    requests,            \* calls of nativeGenerateStream still to come
    writes,              \* engine writes still to come
    cancels,             \* calls of nativeCancel still to come
    written,             \* history: bytes the engine wrote in this request
    delivered,           \* history: strings handed to onToken in this request
    answers,             \* history: what onToken did at each delivery
    undelivered,         \* history: a flush attempt of this request delivered nothing
    kept,                \* history: bytes a flush without JNIEnv left in the buffer
    registered,          \* history: the request has set its flag
    staleFlag,           \* history: the flag it found set when it registered
    clears,              \* history: clearCancelFlag calls of this request
    exitPath,            \* history: how the engine call ended
    cancelDone,          \* history: a cancel completed while the flag was registered
    polledTrue,          \* history: a write of this request found the flag true
    wBuf,                \* history: buffer when the current write started
    wDeliv,              \* history: deliveries when the current write started
    wCancel,             \* history: cancelDone when the current write started
    accepted,            \* history: return value of the last xsputn
    flushed              \* history: how the last flush attempt ended

tableVars == <<gCancelFlags, gCancelMutex>>
ctlVars == <<pc, llmPtr, cbArg, cur, retpc, retval>>
ctxVars == <<buffer, shouldStop, needDetach, callbackGlobalRef>>
cancelVars == <<cancelPc, cancelArg>>
otherVars == <<otherPc, otherPtr, otherStop>>
budgetVars == <<requests, writes, cancels>>
reqHist == <<registered, staleFlag, clears, exitPath, cancelDone, polledTrue>>
outHist == <<written, delivered, answers, undelivered, kept>>
writeHist == <<wBuf, wDeliv, wCancel, accepted, flushed>>
vars == <<tableVars, ctlVars, ctxVars, cancelVars, otherVars, budgetVars, reqHist, outHist,
          writeHist>>

Init ==
    /\ gCancelFlags = EmptyTable
    /\ gCancelMutex = Free
    /\ pc = "idle"
    /\ llmPtr = NullPtr
    /\ cbArg = NullPtr
    /\ cur = <<>>
    /\ retpc = "engine"
    /\ retval = FALSE
    /\ buffer = <<>>
    /\ shouldStop = FALSE
    /\ needDetach = FALSE
    /\ callbackGlobalRef = FALSE
    /\ cancelPc = "idle"
    /\ cancelArg = NullPtr
    /\ otherPc = "idle"
    /\ otherPtr = NullPtr
    /\ otherStop = FALSE
    /\ requests = MaxRequests
    /\ writes = MaxWrites
    /\ cancels = MaxCancels
    /\ written = <<>>
    /\ delivered = <<>>
    /\ answers = <<>>
    /\ undelivered = FALSE
    /\ kept = <<>>
    /\ registered = FALSE
    /\ staleFlag = FALSE
    /\ clears = 0
    /\ exitPath = "none"
    /\ cancelDone = FALSE
    /\ polledTrue = FALSE
    /\ wBuf = <<>>
    /\ wDeliv = 0
    /\ wCancel = FALSE
    /\ accepted = 0
    /\ flushed = "none"

Quiet == pc \in {"idle", "returned"}

\* ------------------------------------------------------------------------
\* nativeGenerateStream (lines 257-498)
\* ------------------------------------------------------------------------

\* llmPtr == 0: return JNI_FALSE (line 265)
StartNull ==
    /\ requests > 0
    /\ Quiet
    /\ requests' = requests - 1
    /\ UNCHANGED <<tableVars, ctlVars, ctxVars, cancelVars, writes, cancels,
                   reqHist, outHist, writeHist>>
    /\ UNCHANGED otherVars

SetupOutcomes == {"ok", "no_jvm", "no_method", "no_ref"}

\* lines 265-336: history parsing, GetJavaVM, GetMethodID, NewGlobalRef and
\* the construction of the StreamContext.  The three failures return
\* JNI_FALSE before the flag is registered.
Start(h, setup) ==
    /\ requests > 0
    /\ Quiet
    /\ requests' = requests - 1
    /\ llmPtr' = h
    /\ cbArg' = NullPtr
    /\ pc' = IF setup = "ok" THEN "register" ELSE "returned"
    /\ retval' = FALSE
    /\ cur' = <<>>
    /\ retpc' = "engine"
    /\ buffer' = <<>>
    /\ shouldStop' = FALSE
    /\ needDetach' = FALSE
    /\ callbackGlobalRef' = (setup = "ok")
    /\ written' = <<>>
    /\ delivered' = <<>>
    /\ answers' = <<>>
    /\ undelivered' = FALSE
    /\ kept' = <<>>
    /\ registered' = FALSE
    /\ staleFlag' = FALSE
    /\ clears' = 0
    /\ exitPath' = IF setup = "ok" THEN "none" ELSE "setup"
    /\ cancelDone' = FALSE
    /\ polledTrue' = FALSE
    /\ wBuf' = <<>>
    /\ wDeliv' = 0
    /\ wCancel' = FALSE
    /\ accepted' = 0
    /\ flushed' = "none"
    /\ UNCHANGED <<tableVars, cancelVars, writes, cancels>>
    /\ UNCHANGED otherVars

\* setCancelFlag(llmPtr, false), line 339: lock_guard acquires the mutex
RegisterLock ==
    /\ pc = "register"
    /\ gCancelMutex = Free
    /\ gCancelMutex' = Gen
    /\ pc' = "register_locked"
    /\ UNCHANGED <<gCancelFlags, llmPtr, cbArg, cur, retpc, retval, ctxVars, cancelVars, budgetVars,
                   reqHist, outHist, writeHist>>
    /\ UNCHANGED otherVars

\* Mutant: the registration keeps an entry that is already in the table
Register_KeepsStale ==
    /\ pc = "register_locked"
    /\ gCancelFlags' = IF llmPtr \in DOMAIN gCancelFlags
                       THEN gCancelFlags
                       ELSE setCancelFlag(gCancelFlags, llmPtr, FALSE)
    /\ gCancelMutex' = Free
    /\ registered' = TRUE
    /\ staleFlag' = checkCancelFlag(gCancelFlags, llmPtr)
    /\ pc' = "engine"
    /\ UNCHANGED <<llmPtr, cbArg, cur, retpc, retval, ctxVars, cancelVars, budgetVars,
                   clears, exitPath, cancelDone, polledTrue, outHist, writeHist>>
    /\ UNCHANGED otherVars

\* ... stores false and releases it; llm->response starts (line 467)
Register ==
    /\ pc = "register_locked"
    /\ gCancelFlags' = setCancelFlag(gCancelFlags, llmPtr, FALSE)
    /\ gCancelMutex' = Free
    /\ registered' = TRUE
    /\ staleFlag' = checkCancelFlag(gCancelFlags, llmPtr)
    /\ pc' = "engine"
    /\ UNCHANGED <<llmPtr, cbArg, cur, retpc, retval, ctxVars, cancelVars, budgetVars,
                   clears, exitPath, cancelDone, polledTrue, outHist, writeHist>>
    /\ UNCHANGED otherVars

\* ------------------------------------------------------------------------
\* The engine, inside llm->response (line 467)
\* ------------------------------------------------------------------------

\* The engine writes s: xsputn(s, n) is entered (line 407).  shouldStop is
\* tested first; when it is set the first checkCancelFlag is short-circuited
\* and control goes to the check of line 410.
EngineWrite(s) ==
    /\ pc = "engine"
    /\ writes > 0
    /\ writes' = writes - 1
    /\ cur' = s
    /\ pc' = IF shouldStop THEN "poll2" ELSE "poll1"
    /\ written' = written \o s
    /\ wBuf' = buffer
    /\ wDeliv' = Len(delivered)
    /\ wCancel' = cancelDone
    /\ flushed' = "none"
    /\ UNCHANGED <<tableVars, llmPtr, cbArg, retpc, retval, ctxVars, cancelVars, requests, cancels,
                   reqHist, delivered, answers, undelivered, kept, accepted>>
    /\ UNCHANGED otherVars

\* Mutant: && for the second || of line 409
Refused_And(stop, flag, n) == stop \/ (flag /\ n <= 0)

\* The condition of line 409
Refused(stop, flag, n) == stop \/ flag \/ n <= 0

\* checkCancelFlag of line 409 acquires the mutex
Poll1Lock ==
    /\ pc = "poll1"
    /\ gCancelMutex = Free
    /\ gCancelMutex' = Gen
    /\ pc' = "poll1_locked"
    /\ UNCHANGED <<gCancelFlags, llmPtr, cbArg, cur, retpc, retval, ctxVars, cancelVars, budgetVars,
                   reqHist, outHist, writeHist>>
    /\ UNCHANGED otherVars

\* Mutant: the lock taken for the poll is still held when xsputn goes on
Poll1_KeepsLock ==
    /\ pc = "poll1_locked"
    /\ gCancelMutex' = gCancelMutex
    /\ LET flag == checkCancelFlag(gCancelFlags, llmPtr)
           n == Len(cur)
           buf == buffer \o cur
       IN  /\ polledTrue' = (polledTrue \/ flag)
           /\ IF Refused(shouldStop, flag, n)
              THEN /\ pc' = "poll2"
                   /\ UNCHANGED <<buffer, retpc, accepted>>
              ELSE /\ buffer' = buf
                   /\ accepted' = n
                   /\ retpc' = "engine"
                   /\ pc' = IF ShouldFlush(buf, cur) THEN "flush" ELSE "engine"
    /\ UNCHANGED <<gCancelFlags, llmPtr, cbArg, cur, retval, shouldStop, needDetach, callbackGlobalRef,
                   cancelVars, budgetVars, registered, staleFlag, clears, exitPath, cancelDone,
                   outHist, wBuf, wDeliv, wCancel, flushed>>
    /\ UNCHANGED otherVars

\* ... reads the flag and releases the mutex.  Flag set or n <= 0: on to the
\* check of line 410.  Otherwise the write is accepted: append (line 418),
\* flush decision (lines 422-450), and either flushToCallback or return n.
Poll1 ==
    /\ pc = "poll1_locked"
    /\ gCancelMutex' = Free
    /\ LET flag == checkCancelFlag(gCancelFlags, llmPtr)
           n == Len(cur)
           buf == buffer \o cur
       IN  /\ polledTrue' = (polledTrue \/ flag)
           /\ IF Refused(shouldStop, flag, n)
              THEN /\ pc' = "poll2"
                   /\ UNCHANGED <<buffer, retpc, accepted>>
              ELSE /\ buffer' = buf
                   /\ accepted' = n
                   /\ retpc' = "engine"
                   /\ pc' = IF ShouldFlush(buf, cur) THEN "flush" ELSE "engine"
    /\ UNCHANGED <<gCancelFlags, llmPtr, cbArg, cur, retval, shouldStop, needDetach, callbackGlobalRef,
                   cancelVars, budgetVars, registered, staleFlag, clears, exitPath, cancelDone,
                   outHist, wBuf, wDeliv, wCancel, flushed>>
    /\ UNCHANGED otherVars

\* checkCancelFlag of line 410 acquires the mutex
Poll2Lock ==
    /\ pc = "poll2"
    /\ gCancelMutex = Free
    /\ gCancelMutex' = Gen
    /\ pc' = "poll2_locked"
    /\ UNCHANGED <<gCancelFlags, llmPtr, cbArg, cur, retpc, retval, ctxVars, cancelVars, budgetVars,
                   reqHist, outHist, writeHist>>
    /\ UNCHANGED otherVars

\* ... reads the flag, releases the mutex, latches shouldStop when the flag
\* is set, and returns 0 (lines 410-414)
Poll2 ==
    /\ pc = "poll2_locked"
    /\ gCancelMutex' = Free
    /\ LET flag == checkCancelFlag(gCancelFlags, llmPtr)
       IN  /\ shouldStop' = (shouldStop \/ flag)
           /\ polledTrue' = (polledTrue \/ flag)
    /\ accepted' = 0
    /\ pc' = "engine"
    /\ UNCHANGED <<gCancelFlags, llmPtr, cbArg, cur, retpc, retval, buffer, needDetach, callbackGlobalRef,
                   cancelVars, budgetVars, registered, staleFlag, clears, exitPath, cancelDone,
                   outHist, wBuf, wDeliv, wCancel, flushed>>
    /\ UNCHANGED otherVars

\* ------------------------------------------------------------------------
\* CallbackStream::flushToCallback (lines 347-403)
\* ------------------------------------------------------------------------
EnvResults == {"JNI_OK", "JNI_EDETACHED", "JNI_ERR"}

\* Mutant: a flush without JNIEnv goes on to buffer.clear()
FlushToCallback_ClearsOnNoEnv(getEnvResult, attachOk, stringOk) ==
    /\ pc = "flush"
    /\ IF buffer = <<>> \/ shouldStop
       THEN /\ pc' = retpc
            /\ UNCHANGED <<buffer, needDetach, delivered, flushed, undelivered, kept>>
       ELSE IF getEnvResult = "JNI_ERR" \/ (getEnvResult = "JNI_EDETACHED" /\ ~attachOk)
       THEN /\ pc' = retpc
            /\ flushed' = "no_env"
            /\ undelivered' = TRUE
            /\ kept' = buffer
            /\ buffer' = <<>>
            /\ UNCHANGED <<needDetach, delivered>>
       ELSE IF ~stringOk
       THEN /\ pc' = retpc
            /\ buffer' = <<>>
            /\ flushed' = "no_string"
            /\ undelivered' = TRUE
            /\ kept' = <<>>
            /\ UNCHANGED <<needDetach, delivered>>
       ELSE /\ pc' = "callback"
            /\ needDetach' = (getEnvResult = "JNI_EDETACHED")
            /\ delivered' = Append(delivered, NewStringUTF(buffer))
            /\ flushed' = "delivered"
            /\ UNCHANGED <<buffer, undelivered, kept>>
    /\ UNCHANGED <<tableVars, llmPtr, cbArg, cur, retpc, retval, shouldStop, callbackGlobalRef,
                   cancelVars, budgetVars, reqHist, written, answers,
                   wBuf, wDeliv, wCancel, accepted>>
    /\ UNCHANGED otherVars

\* Lines 347-377: the guard, the acquisition of a JNIEnv (GetEnv, and
\* AttachCurrentThread when detached), NewStringUTF, and the call of onToken.
\*   - no JNIEnv: return, the buffer is kept (lines 361, 366);
\*   - NewStringUTF returned null: nothing is delivered, detach, clear (389-402);
\*   - otherwise the consumer is running: pc = "callback".
FlushToCallback(getEnvResult, attachOk, stringOk) ==
    /\ pc = "flush"
    /\ IF buffer = <<>> \/ shouldStop
       THEN /\ pc' = retpc
            /\ UNCHANGED <<buffer, needDetach, delivered, flushed, undelivered, kept>>
       ELSE IF getEnvResult = "JNI_ERR" \/ (getEnvResult = "JNI_EDETACHED" /\ ~attachOk)
       THEN /\ pc' = retpc
            /\ flushed' = "no_env"
            /\ undelivered' = TRUE
            /\ kept' = buffer
            /\ UNCHANGED <<buffer, needDetach, delivered>>
       ELSE IF ~stringOk
       THEN /\ pc' = retpc
            /\ buffer' = <<>>
            /\ flushed' = "no_string"
            /\ undelivered' = TRUE
            /\ kept' = <<>>
            /\ UNCHANGED <<needDetach, delivered>>
       ELSE /\ pc' = "callback"
            /\ needDetach' = (getEnvResult = "JNI_EDETACHED")
            /\ delivered' = Append(delivered, NewStringUTF(buffer))
            /\ flushed' = "delivered"
            /\ UNCHANGED <<buffer, undelivered, kept>>
    /\ UNCHANGED <<tableVars, llmPtr, cbArg, cur, retpc, retval, shouldStop, callbackGlobalRef,
                   cancelVars, budgetVars, reqHist, written, answers,
                   wBuf, wDeliv, wCancel, accepted>>
    /\ UNCHANGED otherVars

Answers == {"true", "false", "exception"}

\* Mutant: the return value of onToken is not looked at
StopRequested_OnlyException(answer) == answer = "exception"

\* Mutant: no ExceptionCheck, no catch (...)
StopRequested_OnlyFalse(answer) == answer = "false"

\* Lines 381-388 and 392-395: what sets shouldStop
StopRequested(answer) == answer # "true"

\* Mutant: no buffer.clear() after the delivery
CallbackReturn_NoClear(answer) ==
    /\ pc = "callback"
    /\ shouldStop' = (shouldStop \/ StopRequested(answer))
    /\ needDetach' = FALSE
    /\ buffer' = buffer
    /\ answers' = Append(answers, answer)
    /\ kept' = <<>>
    /\ pc' = retpc
    /\ UNCHANGED <<tableVars, llmPtr, cbArg, cur, retpc, retval, callbackGlobalRef,
                   cancelVars, budgetVars, reqHist, written, delivered, undelivered, writeHist>>
    /\ UNCHANGED otherVars

\* Lines 373-402: onToken returns true or false, or leaves an exception
\* pending (ExceptionCheck, or catch (...)).  false and an exception set
\* shouldStop.  Then DetachCurrentThread if needed, and buffer.clear().
CallbackReturn(answer) ==
    /\ pc = "callback"
    /\ shouldStop' = (shouldStop \/ StopRequested(answer))
    /\ needDetach' = FALSE
    /\ buffer' = <<>>
    /\ answers' = Append(answers, answer)
    /\ kept' = <<>>
    /\ pc' = retpc
    /\ UNCHANGED <<tableVars, llmPtr, cbArg, cur, retpc, retval, callbackGlobalRef,
                   cancelVars, budgetVars, reqHist, written, delivered, undelivered, writeHist>>
    /\ UNCHANGED otherVars

\* The consumer calls nativeCancel(ptr) from inside onToken, on the
\* generation thread (lines 373-377 are on the stack); ptr == 0 returns at
\* once (line 508)
CallbackCancel(ptr) ==
    /\ pc = "callback"
    /\ cancels > 0
    /\ cancels' = cancels - 1
    /\ IF ptr = NullPtr
       THEN UNCHANGED <<pc, cbArg>>
       ELSE /\ pc' = "cb_cancel"
            /\ cbArg' = ptr
    /\ UNCHANGED <<tableVars, llmPtr, cur, retpc, retval, ctxVars, cancelVars, requests, writes,
                   reqHist, outHist, writeHist>>
    /\ UNCHANGED otherVars

\* setCancelFlag(ptr, true), line 511: lock_guard acquires the mutex, which
\* is not recursive
CallbackCancelLock ==
    /\ pc = "cb_cancel"
    /\ gCancelMutex = Free
    /\ gCancelMutex' = Gen
    /\ pc' = "cb_cancel_locked"
    /\ UNCHANGED <<gCancelFlags, llmPtr, cbArg, cur, retpc, retval, ctxVars, cancelVars, budgetVars,
                   reqHist, outHist, writeHist>>
    /\ UNCHANGED otherVars

\* ... stores true and releases it; nativeCancel returns into onToken
CallbackCancelSet ==
    /\ pc = "cb_cancel_locked"
    /\ gCancelFlags' = setCancelFlag(gCancelFlags, cbArg, TRUE)
    /\ gCancelMutex' = Free
    /\ cbArg' = NullPtr
    /\ cancelDone' = (cancelDone \/ (cbArg = llmPtr /\ registered /\ clears = 0))
    /\ pc' = "callback"
    /\ UNCHANGED <<llmPtr, cur, retpc, retval, ctxVars, cancelVars, budgetVars,
                   registered, staleFlag, clears, exitPath, polledTrue, outHist, writeHist>>
    /\ UNCHANGED otherVars

\* ------------------------------------------------------------------------
\* The end of llm->response and the request's exits (lines 467-497)
\* ------------------------------------------------------------------------

\* llm->response returns; lines 470-472 decide on the last flush
EngineReturn ==
    /\ pc = "engine"
    /\ exitPath' = "normal"
    /\ retpc' = "cleanup"
    /\ pc' = IF buffer # <<>> /\ ~shouldStop THEN "flush" ELSE "cleanup"
    /\ flushed' = "none"
    /\ UNCHANGED <<tableVars, llmPtr, cbArg, cur, retval, ctxVars, cancelVars, budgetVars,
                   registered, staleFlag, clears, cancelDone, polledTrue, outHist,
                   wBuf, wDeliv, wCancel, accepted>>
    /\ UNCHANGED otherVars

Throws == {"std_exception", "unknown_exception"}

\* Mutant: catch (...) returns without clearCancelFlag
EngineThrow_UnknownSkipsCleanup(what) ==
    /\ pc = "engine"
    /\ exitPath' = what
    /\ pc' = IF what = "unknown_exception" THEN "returned" ELSE "cleanup"
    /\ UNCHANGED <<tableVars, llmPtr, cbArg, cur, retpc, retval, ctxVars, cancelVars, budgetVars,
                   registered, staleFlag, clears, cancelDone, polledTrue, outHist, writeHist>>
    /\ UNCHANGED otherVars

\* Mutant: the handlers flush what is left in the buffer
EngineThrow_Flushes(what) ==
    /\ pc = "engine"
    /\ exitPath' = what
    /\ retpc' = "cleanup"
    /\ pc' = IF buffer # <<>> /\ ~shouldStop THEN "flush" ELSE "cleanup"
    /\ UNCHANGED <<tableVars, llmPtr, cbArg, cur, retval, ctxVars, cancelVars, budgetVars,
                   registered, staleFlag, clears, cancelDone, polledTrue, outHist, writeHist>>
    /\ UNCHANGED otherVars

\* llm->response throws: control goes to the handler of line 483 or 490
EngineThrow(what) ==
    /\ pc = "engine"
    /\ exitPath' = what
    /\ pc' = "cleanup"
    /\ UNCHANGED <<tableVars, llmPtr, cbArg, cur, retpc, retval, ctxVars, cancelVars, budgetVars,
                   registered, staleFlag, clears, cancelDone, polledTrue, outHist, writeHist>>
    /\ UNCHANGED otherVars

\* Lines 475-478, 485-488, 492-495: DeleteGlobalRef, then clearCancelFlag
\* acquires the mutex
CleanupLock ==
    /\ pc = "cleanup"
    /\ gCancelMutex = Free
    /\ gCancelMutex' = Gen
    /\ callbackGlobalRef' = FALSE
    /\ pc' = "cleanup_locked"
    /\ UNCHANGED <<gCancelFlags, llmPtr, cbArg, cur, retpc, retval, buffer, shouldStop, needDetach,
                   cancelVars, budgetVars, reqHist, outHist, writeHist>>
    /\ UNCHANGED otherVars

\* ... erases the entry and releases the mutex (line 55)
Cleanup ==
    /\ pc = "cleanup_locked"
    /\ gCancelFlags' = clearCancelFlag(gCancelFlags, llmPtr)
    /\ gCancelMutex' = Free
    /\ clears' = clears + 1
    /\ pc' = "cleaned"
    /\ UNCHANGED <<llmPtr, cbArg, cur, retpc, retval, ctxVars, cancelVars, budgetVars,
                   registered, staleFlag, exitPath, cancelDone, polledTrue, outHist, writeHist>>
    /\ UNCHANGED otherVars

\* Mutant: a stopped request returns JNI_FALSE
Return_StopFails ==
    /\ pc = "cleaned"
    /\ retval' = (exitPath = "normal" /\ ~shouldStop)
    /\ pc' = "returned"
    /\ UNCHANGED <<tableVars, llmPtr, cbArg, cur, retpc, ctxVars, cancelVars, budgetVars,
                   reqHist, outHist, writeHist>>
    /\ UNCHANGED otherVars

\* The request returns JNI_TRUE (line 481) or JNI_FALSE (lines 489, 496)
Return ==
    /\ pc = "cleaned"
    /\ retval' = (exitPath = "normal")
    /\ pc' = "returned"
    /\ UNCHANGED <<tableVars, llmPtr, cbArg, cur, retpc, ctxVars, cancelVars, budgetVars,
                   reqHist, outHist, writeHist>>
    /\ UNCHANGED otherVars

\* ------------------------------------------------------------------------
\* nativeCancel (lines 504-513), on another thread
\* ------------------------------------------------------------------------

\* The flag of h is registered: set by the request and not yet cleared
FlagLive == registered /\ clears = 0 /\ ~Quiet

\* nativeCancel(llmPtr) is called; llmPtr == 0 returns at once (line 508)
CancelCall(ptr) ==
    /\ cancelPc = "idle"
    /\ cancels > 0
    /\ cancels' = cancels - 1
    /\ IF ptr = NullPtr
       THEN UNCHANGED cancelVars
       ELSE /\ cancelPc' = "lock"
            /\ cancelArg' = ptr
    /\ UNCHANGED <<tableVars, ctlVars, ctxVars, requests, writes,
                   reqHist, outHist, writeHist>>
    /\ UNCHANGED otherVars

\* setCancelFlag(llmPtr, true), line 511: lock_guard acquires the mutex
CancelLock ==
    /\ cancelPc = "lock"
    /\ gCancelMutex = Free
    /\ gCancelMutex' = Ext
    /\ cancelPc' = "locked"
    /\ UNCHANGED <<gCancelFlags, ctlVars, ctxVars, cancelArg, budgetVars,
                   reqHist, outHist, writeHist>>
    /\ UNCHANGED otherVars

\* ... stores true and releases it; nativeCancel returns
CancelSet ==
    /\ cancelPc = "locked"
    /\ gCancelFlags' = setCancelFlag(gCancelFlags, cancelArg, TRUE)
    /\ gCancelMutex' = Free
    /\ cancelPc' = "idle"
    /\ cancelArg' = NullPtr
    /\ cancelDone' = (cancelDone \/ (cancelArg = llmPtr /\ FlagLive))
    /\ UNCHANGED <<ctlVars, ctxVars, budgetVars,
                   registered, staleFlag, clears, exitPath, polledTrue, outHist, writeHist>>
    /\ UNCHANGED otherVars

\* ------------------------------------------------------------------------
\* Specification
\* ------------------------------------------------------------------------
Next ==
    \/ StartNull
    \/ \E h \in Handles, setup \in SetupOutcomes : Start(h, setup)
    \/ RegisterLock
    \/ Register
    \/ \E s \in SmallVocabulary : EngineWrite(s)
    \/ Poll1Lock
    \/ Poll1
    \/ Poll2Lock
    \/ Poll2
    \/ \E r \in EnvResults, a \in BOOLEAN, j \in BOOLEAN :
           FlushToCallback(r, a, j)
    \/ \E answer \in Answers : CallbackReturn(answer)
    \/ \E p \in Handles \cup {NullPtr} : CallbackCancel(p)
    \/ CallbackCancelLock
    \/ CallbackCancelSet
    \/ EngineReturn
    \/ \E what \in Throws : EngineThrow(what)
    \/ CleanupLock
    \/ Cleanup
    \/ Return
    \/ \E p \in Handles \cup {NullPtr} : CancelCall(p)
    \/ CancelLock
    \/ CancelSet

Spec == Init /\ [][Next]_vars

\* ------------------------------------------------------------------------
\* The sink alone: one generation thread and the full vocabulary, no
\* thread calling nativeCancel.
\* ------------------------------------------------------------------------
\* The handle of its request
SinkHandle == CHOOSE h \in Handles : TRUE

InitSink ==
    /\ gCancelFlags = EmptyTable
    /\ gCancelMutex = Free
    /\ pc = "idle"
    /\ llmPtr = NullPtr
    /\ cbArg = NullPtr
    /\ cur = <<>>
    /\ retpc = "engine"
    /\ retval = FALSE
    /\ buffer = <<>>
    /\ shouldStop = FALSE
    /\ needDetach = FALSE
    /\ callbackGlobalRef = FALSE
    /\ cancelPc = "idle"
    /\ cancelArg = NullPtr
    /\ otherPc = "idle"
    /\ otherPtr = NullPtr
    /\ otherStop = FALSE
    /\ requests = 1
    /\ writes = MaxWrites
    /\ cancels = 0
    /\ written = <<>>
    /\ delivered = <<>>
    /\ answers = <<>>
    /\ undelivered = FALSE
    /\ kept = <<>>
    /\ registered = FALSE
    /\ staleFlag = FALSE
    /\ clears = 0
    /\ exitPath = "none"
    /\ cancelDone = FALSE
    /\ polledTrue = FALSE
    /\ wBuf = <<>>
    /\ wDeliv = 0
    /\ wCancel = FALSE
    /\ accepted = 0
    /\ flushed = "none"

NextSink ==
    \/ StartNull
    \/ \E setup \in SetupOutcomes : Start(SinkHandle, setup)
    \/ RegisterLock
    \/ Register
    \/ \E s \in Vocabulary : EngineWrite(s)
    \/ Poll1Lock
    \/ Poll1
    \/ Poll2Lock
    \/ Poll2
    \/ \E r \in EnvResults, a \in BOOLEAN, j \in BOOLEAN :
           FlushToCallback(r, a, j)
    \/ \E answer \in Answers : CallbackReturn(answer)
    \/ EngineReturn
    \/ \E what \in Throws : EngineThrow(what)
    \/ CleanupLock
    \/ Cleanup
    \/ Return

SpecSink == InitSink /\ [][NextSink]_vars

\* ------------------------------------------------------------------------
\* A second streaming request, on another thread and another handle (callers
\* serialize the requests of one handle).  Of its nativeGenerateStream only
\* the operations on the table are kept: the registration (line 339), the
\* polls of its writes (lines 409-412) and the cleanup (line 478).
\* ------------------------------------------------------------------------
OtherStart(h) ==
    /\ otherPc = "idle"
    /\ requests > 0
    /\ h # llmPtr \/ Quiet
    /\ requests' = requests - 1
    /\ otherPc' = "register"
    /\ otherPtr' = h
    /\ otherStop' = FALSE
    /\ UNCHANGED <<tableVars, ctlVars, ctxVars, cancelVars, writes, cancels,
                   reqHist, outHist, writeHist>>

\* Its lock_guard acquisitions (line 41, 47 or 54)
OtherLock ==
    /\ otherPc \in {"register", "poll", "cleanup"}
    /\ gCancelMutex = Free
    /\ gCancelMutex' = Oth
    /\ otherPc' = (CASE otherPc = "register" -> "register_locked"
                     [] otherPc = "poll" -> "poll_locked"
                     [] otherPc = "cleanup" -> "cleanup_locked")
    /\ UNCHANGED <<gCancelFlags, ctlVars, ctxVars, cancelVars, otherPtr, otherStop, budgetVars,
                   reqHist, outHist, writeHist>>

\* setCancelFlag(llmPtr, false), line 339
OtherRegister ==
    /\ otherPc = "register_locked"
    /\ gCancelFlags' = setCancelFlag(gCancelFlags, otherPtr, FALSE)
    /\ gCancelMutex' = Free
    /\ otherPc' = "engine"
    /\ UNCHANGED <<ctlVars, ctxVars, cancelVars, otherPtr, otherStop, budgetVars,
                   reqHist, outHist, writeHist>>

\* Its engine writes (xsputn is entered) or returns
OtherEngine(write) ==
    /\ otherPc = "engine"
    /\ otherPc' = IF write THEN "poll" ELSE "cleanup"
    /\ UNCHANGED <<tableVars, ctlVars, ctxVars, cancelVars, otherPtr, otherStop, budgetVars,
                   reqHist, outHist, writeHist>>

\* checkCancelFlag of lines 409-410; the flag latches its shouldStop
OtherPoll ==
    /\ otherPc = "poll_locked"
    /\ gCancelMutex' = Free
    /\ otherStop' = (otherStop \/ checkCancelFlag(gCancelFlags, otherPtr))
    /\ otherPc' = "engine"
    /\ UNCHANGED <<gCancelFlags, ctlVars, ctxVars, cancelVars, otherPtr, budgetVars,
                   reqHist, outHist, writeHist>>

\* clearCancelFlag(llmPtr), line 478, and the return
OtherCleanup ==
    /\ otherPc = "cleanup_locked"
    /\ gCancelFlags' = clearCancelFlag(gCancelFlags, otherPtr)
    /\ gCancelMutex' = Free
    /\ otherPc' = "idle"
    /\ otherPtr' = NullPtr
    /\ UNCHANGED <<ctlVars, ctxVars, cancelVars, otherStop, budgetVars,
                   reqHist, outHist, writeHist>>

\* The two requests are on distinct handles
NextTwo ==
    \/ StartNull
    \/ \E h \in Handles \ {otherPtr}, setup \in SetupOutcomes : Start(h, setup)
    \/ RegisterLock
    \/ Register
    \/ \E s \in SmallVocabulary : EngineWrite(s)
    \/ Poll1Lock
    \/ Poll1
    \/ Poll2Lock
    \/ Poll2
    \/ \E r \in EnvResults, a \in BOOLEAN, j \in BOOLEAN :
           FlushToCallback(r, a, j)
    \/ \E answer \in Answers : CallbackReturn(answer)
    \/ \E p \in Handles \cup {NullPtr} : CallbackCancel(p)
    \/ CallbackCancelLock
    \/ CallbackCancelSet
    \/ EngineReturn
    \/ \E what \in Throws : EngineThrow(what)
    \/ CleanupLock
    \/ Cleanup
    \/ Return
    \/ \E p \in Handles \cup {NullPtr} : CancelCall(p)
    \/ CancelLock
    \/ CancelSet
    \/ \E h \in Handles : OtherStart(h)
    \/ OtherLock
    \/ OtherRegister
    \/ \E w \in BOOLEAN : OtherEngine(w)
    \/ OtherPoll
    \/ OtherCleanup

SpecTwo == Init /\ [][NextTwo]_vars

\* ------------------------------------------------------------------------
\* Scheduling.  A thread that holds gCancelMutex is inside the lock_guard
\* scope of lines 41-43, 47-50 or 54-56, straight-line code that runs to its
\* end; a thread blocked in the lock_guard constructor gets the mutex if it
\* is free again and again.  Nothing is assumed about the engine or the
\* consumer: llm->response and onToken may take for ever.
\* ------------------------------------------------------------------------
Fairness ==
    /\ WF_vars(Register)
    /\ WF_vars(Poll1)
    /\ WF_vars(Poll2)
    /\ WF_vars(Cleanup)
    /\ WF_vars(CancelSet)
    /\ WF_vars(CallbackCancelSet)
    /\ SF_vars(CancelLock)
    /\ SF_vars(CallbackCancelLock)

SpecFair == Spec /\ Fairness

\* ------------------------------------------------------------------------
\* Properties
\* ------------------------------------------------------------------------
AllTrue(a) == \A i \in 1..Len(a) : a[i] = "true"

InRequest == pc \in {"engine", "poll1", "poll1_locked", "poll2", "poll2_locked",
                     "flush", "callback"}

\* C1: when the engine call returned normally, no cancel completed on the
\* handle, and every chunk reached the consumer, which returned true, the
\* strings the consumer received, concatenated in delivery order, are the
\* text the engine wrote (every write of SpecSink has length > 0).
C1_DeliveredEqualsWritten ==
    (pc = "returned" /\ exitPath = "normal" /\ ~cancelDone
                     /\ ~undelivered /\ AllTrue(answers))
        => Flatten(delivered) = Decode(written)

\* C2: once the consumer has returned false at delivery k, there is no
\* delivery k+1 in that request, whatever is written afterwards and
\* including the flush at the end of the generation.
C2_NoDeliveryAfterFalse ==
    \A k \in 1..Len(answers) : answers[k] = "false" => Len(delivered) = k

\* A request that ended normally after the consumer's false, with a later
\* non-empty write that was dropped
C2_Witness ==
    /\ pc = "returned"
    /\ exitPath = "normal"
    /\ ~cancelDone
    /\ Len(answers) >= 1
    /\ answers[Len(answers)] = "false"
    /\ Len(cur) > 0
    /\ accepted = 0

\* C3: once a write has polled the flag and found it true, that write and
\* every later write of the request accept zero bytes, leave the buffer as it
\* was, deliver nothing and raise nothing, up to the request's cleanup.
C3_DroppedOnceCancelSeen ==
    (polledTrue /\ InRequest)
        => /\ buffer = wBuf
           /\ Len(delivered) = wDeliv
           /\ exitPath = "none"
           /\ pc \notin {"flush", "callback"}
           /\ (pc = "engine" => accepted = 0)

\* One byte accepted and kept, then two non-empty writes dropped: the one
\* that polled the flag and a later one
C3_Witness ==
    /\ polledTrue
    /\ pc = "engine"
    /\ shouldStop
    /\ buffer = <<97>>
    /\ delivered = <<>>
    /\ Len(written) = 3
    /\ accepted = 0

\* C4: a cancel that completed after the request registered its flag is not
\* lost or overwritten while the flag is registered, and a write that starts
\* after it accepts zero bytes.
C4_CompletedCancelObserved ==
    /\ (FlagLive /\ cancelDone) => checkCancelFlag(gCancelFlags, llmPtr)
    /\ (pc = "engine" /\ wCancel) => accepted = 0

\* A non-empty write that started after a completed cancel, polled the flag
\* (the latch was not set by the consumer) and returned
C4_Witness ==
    /\ pc = "engine"
    /\ wCancel
    /\ polledTrue
    /\ Len(cur) > 0
    /\ AllTrue(answers)
    /\ accepted = 0

\* C5: whenever a handle has no active request the table holds no entry for
\* it (a cancel for such a handle creates none).
C5_NoEntryWithoutRequest ==
    \A h \in Handles : (Quiet \/ llmPtr # h) => h \notin DOMAIN gCancelFlags

\* C6: a request that registered its flag has called clearCancelFlag exactly
\* once when it returns, on every exit path; never twice; and a request that
\* did not register never calls it.
C6_ClearedExactlyOnce ==
    /\ clears <= 1
    /\ pc = "returned" => clears = (IF registered THEN 1 ELSE 0)
    /\ (registered /\ clears = 0 /\ pc # "cleanup_locked" /\ ~Quiet)
           => llmPtr \in DOMAIN gCancelFlags

\* A request that left through catch (...)
C6_Witness ==
    /\ pc = "returned"
    /\ registered
    /\ exitPath = "unknown_exception"
    /\ clears = 1

HasException == \E k \in 1..Len(answers) : answers[k] = "exception"

\* C7 (as claimed): a request in which a delivery raised an exception
\* returns false, after removing its flag.
C7_CallbackExceptionFails ==
    (pc = "returned" /\ HasException) => (retval = FALSE /\ clears = 1)

\* C7 (amended): an exception raised by a delivery is absorbed by the flush
\* as a stop request: the latch is set and that delivery is the last one; the
\* request removes its flag and returns true when the engine call returns
\* normally, false only when the engine call throws.
C7_CallbackExceptionStops ==
    \A k \in 1..Len(answers) :
        answers[k] = "exception"
            => /\ shouldStop
               /\ Len(delivered) = k
               /\ (pc = "returned" => (clears = 1 /\ retval = (exitPath = "normal")))

\* A request that returned true after a delivery raised an exception
C7_Witness ==
    /\ pc = "returned"
    /\ HasException
    /\ retval = TRUE
    /\ clears = 1

AfterThrow == exitPath \in Throws

\* C8: after the engine call has thrown, nothing more is delivered and the
\* buffer is not flushed (the deliveries made so far stay as they are), and
\* the request returns false, once, after one cleanup.
C8_ThrowKeepsDelivered ==
    /\ [](AfterThrow => /\ pc \in {"cleanup", "cleanup_locked", "cleaned", "returned"}
                        /\ Len(answers) = Len(delivered)
                        /\ (pc = "returned" => (retval = FALSE /\ clears = 1)))
    /\ [][(AfterThrow /\ exitPath' = exitPath)
              => (delivered' = delivered /\ buffer' = buffer /\ answers' = answers)]_vars

\* A throw after one delivery, with bytes left in the buffer
C8_Witness ==
    /\ pc = "returned"
    /\ AfterThrow
    /\ Len(delivered) = 1
    /\ buffer # <<>>
    /\ retval = FALSE

StoppedEarly ==
    \/ \E k \in 1..Len(answers) : answers[k] = "false"
    \/ polledTrue

\* C9: a request stopped early (the consumer returned false, or a write saw
\* the cancel) whose engine call returns normally returns true; its flag
\* entry has been removed when it returns (clearCancelFlag has run once, and
\* the step that runs it leaves no entry for the handle); and if the consumer
\* returned false at the first delivery, one chunk was delivered in all.
C9_GracefulStop ==
    /\ []((pc = "returned" /\ exitPath = "normal" /\ StoppedEarly)
              => /\ retval = TRUE
                 /\ clears = 1
                 /\ (answers # <<>> /\ answers[1] = "false" => Len(delivered) = 1))
    /\ [][(clears' = clears + 1) => llmPtr' \notin DOMAIN gCancelFlags']_vars

\* The consumer returned false at the first delivery, later writes were
\* dropped, and the request returned true
C9_Witness ==
    /\ pc = "returned"
    /\ exitPath = "normal"
    /\ answers = <<"false">>
    /\ Len(delivered) = 1
    /\ Len(written) > 1
    /\ retval = TRUE

\* A request that a cancel stopped, returning true
C9_WitnessCancel ==
    /\ pc = "returned"
    /\ exitPath = "normal"
    /\ polledTrue
    /\ AllTrue(answers)
    /\ retval = TRUE

\* The flush rules in the words of C10, on the buffer after the append and
\* the bytes just written
C10_Rule(buf, s) ==
    \/ Len(buf) >= 16
    \/ \E i \in 1..Len(s) : s[i] \in {46, 33, 63, 10}
    \/ /\ Len(buf) >= 3
       /\ SubSeq(buf, Len(buf) - 2, Len(buf))
              \in { <<227, 128, 130>>, <<239, 188, 129>>, <<239, 188, 159>> }

WriteAccepted == pc = "engine" /\ accepted > 0

\* C10 (as claimed): an accepted write makes exactly one delivery when a
\* rule holds, carrying the whole buffer, and none otherwise.
C10_OneDeliveryPerRule ==
    WriteAccepted =>
        IF C10_Rule(wBuf \o cur, cur)
        THEN /\ Len(delivered) = wDeliv + 1
             /\ delivered[Len(delivered)] = NewStringUTF(wBuf \o cur)
        ELSE Len(delivered) = wDeliv

\* C10 (amended): an accepted write makes exactly one flush attempt when a
\* rule holds and none otherwise.  The attempt makes one delivery, of the
\* whole buffer, when it gets a JNIEnv and NewStringUTF returns a string; it
\* makes none when either fails.  The buffer is empty after a delivery or a
\* failed NewStringUTF, and holds everything otherwise.
C10_OneFlushAttemptPerRule ==
    WriteAccepted =>
        /\ (flushed # "none") <=> C10_Rule(wBuf \o cur, cur)
        /\ Len(delivered) = wDeliv + (IF flushed = "delivered" THEN 1 ELSE 0)
        /\ flushed = "delivered"
               => delivered[Len(delivered)] = NewStringUTF(wBuf \o cur)
        /\ buffer = (IF flushed \in {"delivered", "no_string"} THEN <<>> ELSE wBuf \o cur)

\* A write that reached 16 bytes and ended in a full-width terminator at
\* once, and made one delivery
C10_Witness ==
    /\ WriteAccepted
    /\ Len(wBuf \o cur) >= 16
    /\ cur = <<227, 128, 130>>
    /\ flushed = "delivered"
    /\ Len(delivered) = wDeliv + 1

\* The current write is the first write of length > 0 of its request
FirstWrite == written = cur /\ cur # <<>>

\* C11: a request starts with its flag false, whatever cancels completed
\* before it registered: while no cancel has completed since the
\* registration the flag is false, and the first write of length > 0 is
\* accepted.
C11_FreshFlag ==
    /\ (FlagLive /\ ~cancelDone)
           => (llmPtr \in DOMAIN gCancelFlags /\ ~gCancelFlags[llmPtr])
    /\ (pc = "engine" /\ FirstWrite /\ ~cancelDone)
           => (accepted = Len(cur) /\ ~polledTrue)

\* A request that found a stale cancel in the table when it registered, and
\* whose first non-empty write was accepted
C11_Witness ==
    /\ staleFlag
    /\ pc = "engine"
    /\ FirstWrite
    /\ ~cancelDone
    /\ accepted = Len(cur)
    /\ buffer = cur

\* Positions of the generation thread inside a lock_guard scope
GenLocked == {"register_locked", "poll1_locked", "poll2_locked", "cleanup_locked",
              "cb_cancel_locked"}

\* C12: the mutex is held exactly while a thread is inside one set, check or
\* clear, so never while the engine or the consumer is running; and every
\* nativeCancel that has started completes, whether called from another
\* thread or by the consumer inside onToken, even if the generation never
\* makes another step of its own.
C12_CancelCompletes ==
    /\ []((gCancelMutex = Gen <=> pc \in GenLocked)
            /\ (gCancelMutex = Ext <=> cancelPc = "locked"))
    /\ (cancelPc = "lock" ~> cancelPc = "idle")
    /\ (pc = "cb_cancel" ~> pc = "callback")

\* The consumer's nativeCancel on the request's own handle holds the mutex
\* while another thread's nativeCancel waits for it
C12_Witness ==
    /\ pc = "cb_cancel_locked"
    /\ cbArg = llmPtr
    /\ cancelPc = "lock"

IsPrefix(a, b) == Len(a) <= Len(b) /\ SubSeq(b, 1, Len(a)) = a

\* What a flush that gets no JNIEnv does and leaves behind: the consumer is
\* not invoked and the latch is not set by it, the bytes stay at the front of
\* the buffer, later writes are accepted behind them, and a delivery made
\* while they are there carries them.
KeptUntilDelivered ==
    /\ (flushed = "no_env" /\ pc \in {"engine", "cleanup"})
           => (buffer = kept /\ kept # <<>> /\ Len(delivered) = Len(answers))
    /\ (flushed = "no_env" /\ pc = "engine")
           => (buffer = wBuf \o cur /\ Len(delivered) = wDeliv)
    /\ kept # <<>> => IsPrefix(kept, buffer)
    /\ (kept # <<>> /\ ~polledTrue) => ~shouldStop
    /\ (kept # <<>> /\ ~polledTrue /\ pc = "engine") => accepted = Len(cur)
    /\ (kept # <<>> /\ pc = "callback")
           => delivered[Len(delivered)] = NewStringUTF(buffer)

C14_NoDeliveryAfterCancel ==
    [][(cancelDone /\ cancelDone') => delivered' = delivered]_vars

\* The entry of h in the table: none, or its value
Entry(table, h) == IF h \in DOMAIN table THEN <<table[h]>> ELSE <<>>

\* A thread is inside a set or clear on handle h
WritesEntry(h) ==
    \/ pc \in {"register_locked", "cleanup_locked"} /\ llmPtr = h
    \/ pc = "cb_cancel_locked" /\ cbArg = h
    \/ cancelPc = "locked" /\ cancelArg = h
    \/ otherPc \in {"register_locked", "cleanup_locked"} /\ otherPtr = h

\* C15: the entry of a handle changes only in a set or clear on that handle,
\* so the cancels, registration and cleanup on another handle leave it as it
\* is; and a request running next to a request and cancels on another handle
\* is stopped by the flag only if a cancel on its own handle has completed
\* since it registered: until then its flag reads false and its writes are
\* accepted as if it ran alone.
C15_HandlesIsolated ==
    /\ [][\A h \in Handles :
              Entry(gCancelFlags', h) # Entry(gCancelFlags, h) => WritesEntry(h)]_vars
    /\ [](polledTrue => cancelDone)
    /\ []((FlagLive /\ ~cancelDone) => Entry(gCancelFlags, llmPtr) = <<FALSE>>)
    /\ []((pc = "engine" /\ ~cancelDone /\ AllTrue(answers)) => accepted = Len(cur))

\* A write accepted while the other handle's request is running with its
\* flag set by a cancel
C15_Witness ==
    /\ pc = "engine"
    /\ accepted > 0
    /\ ~cancelDone
    /\ otherPc = "engine"
    /\ otherPtr # llmPtr
    /\ otherStop
    /\ Entry(gCancelFlags, otherPtr) = <<TRUE>>
    /\ Entry(gCancelFlags, llmPtr) = <<FALSE>>

\* C16: when every flush of the request got its JNIEnv, the buffer holds
\* fewer than 16 bytes whenever the engine is between writes: before the
\* first write and after every write has returned, accepted or dropped.  The
\* same holds as soon as bytes kept by a flush without JNIEnv are gone.
C16_BufferBelowThreshold ==
    (pc = "engine" /\ kept = <<>>) => Len(buffer) < FlushThreshold

\* A write that took the buffer to 16 bytes or more has returned and left it
\* empty; the consumer had answered false
C16_Witness ==
    /\ pc = "engine"
    /\ kept = <<>>
    /\ ~undelivered
    /\ accepted > 0
    /\ Len(wBuf \o cur) >= FlushThreshold
    /\ answers # <<>>
    /\ answers[Len(answers)] = "false"
    /\ buffer = <<>>

====
